---- MODULE Spec2Model ----
(***************************************************************************)
(* NexusPrint: the template editor (EditorPage), its undo/redo history,   *)
(* the text resolution effect and the currency / date converters.         *)
(*                                                                         *)
(* A JavaScript string is modelled as a sequence of tokens.  A token is a *)
(* TLA+ string standing for one character (digits, ".", "-", " ", ",")    *)
(* or for one unbreakable run of characters (a word such as "Thousand").  *)
(* String concatenation is \o, the empty string is << >>.                 *)
(* The Chinese glyphs are written in pinyin: ling = zero glyph,           *)
(* yuan = dollar glyph, zheng = "only", jiao / fen = 1/10 and 1/100,      *)
(* shi / bai / qian = 10 / 100 / 1000, wan / yi / zhao = 10^4 / 10^8 /    *)
(* 10^12, and n1 .. n9 = the financial numerals one .. nine.              *)
(***************************************************************************)
EXTENDS Integers, Sequences, FiniteSets, TLC

(***************************************************************************)
(* Bounds of the model.                                                    *)
(***************************************************************************)
\* fields on the canvas
MaxObjects == 1
\* snapshots kept by the shallow specification Spec
MaxHistory == 3
\* user events between choosing an image file and the end of its decoding
MaxStale == 2
\* drags of the deep specification SpecCap
MaxRecords == 60
\* fields of a stored template that is opened for rendering
MaxFields == 2
\* rows of the cloud table 'templates' before saving stops
MaxRows == 2
\* print submissions
MaxPrints == 2

(***************************************************************************)
(* Program constants.                                                      *)
(***************************************************************************)
HistoryCap == 50
MaxHistoryIndex == 49
DefaultX == 50
TextWidth == 200
CurrencyWidth == 300
ImageWidth == 300
PrintLocalCap == 50
PrintCloudLimit == 20

(***************************************************************************)
(* Strings.                                                                *)
(***************************************************************************)
\* the value `undefined` of an optional string property; string
\* concatenation renders it as the text "undefined"
Undefined == <<"undefined">>

\* JavaScript truthiness of an optional string
Truthy(s) == s # Undefined /\ s # << >>

DigitTok == <<"0", "1", "2", "3", "4", "5", "6", "7", "8", "9">>
Digits == {DigitTok[i] : i \in 1..10}
DigitVal(t) == (CHOOSE i \in 1..10 : DigitTok[i] = t) - 1

\* number of leading tokens of s that are decimal digits
RECURSIVE DigitPrefixLen(_)
DigitPrefixLen(s) ==
    IF s = << >> \/ Head(s) \notin Digits THEN 0
    ELSE 1 + DigitPrefixLen(Tail(s))

RECURSIVE SkipSpaces(_)
SkipSpaces(s) ==
    IF s # << >> /\ Head(s) = " " THEN SkipSpaces(Tail(s)) ELSE s

\* String.prototype.trim over " " tokens
RECURSIVE TrimEnd(_)
TrimEnd(s) ==
    IF s # << >> /\ s[Len(s)] = " " THEN TrimEnd(SubSeq(s, 1, Len(s) - 1)) ELSE s

Trim(s) == TrimEnd(SkipSpaces(s))

\* value of a sequence of digit tokens (parseInt of a digit string)
RECURSIVE DigitsToNat(_)
DigitsToNat(ds) ==
    IF ds = << >> THEN 0
    ELSE 10 * DigitsToNat(SubSeq(ds, 1, Len(ds) - 1)) + DigitVal(ds[Len(ds)])

\* decimal digits of a natural number (Number.prototype.toString)
RECURSIVE NatToDigits(_)
NatToDigits(n) ==
    IF n < 10 THEN <<DigitTok[n + 1]>>
    ELSE NatToDigits(n \div 10) \o <<DigitTok[(n % 10) + 1]>>

\* String(n).padStart(2, '0')
Pad2(n) == IF n < 10 THEN <<"0">> \o NatToDigits(n) ELSE NatToDigits(n)

(***************************************************************************)
(* parseFloat: leading white space, an optional sign, then the longest     *)
(* prefix  digits [. digits]  or  . digits ; NaN when there is none.       *)
(* "Infinity" (one token) parses to an infinite number; an exponent part   *)
(* is outside the token alphabet of the model.                             *)
(* The result keeps the sign, the integer part and the fraction digits.    *)
(***************************************************************************)
NaN == [nan |-> TRUE, inf |-> FALSE, neg |-> FALSE, ip |-> <<"0">>, frac |-> << >>]

\* a digit string without its leading zeros ("0" for zero)
RECURSIVE NormDigits(_)
NormDigits(ds) ==
    IF ds = << >> THEN <<"0">>
    ELSE IF Len(ds) > 1 /\ Head(ds) = "0" THEN NormDigits(Tail(ds))
    ELSE ds

ParseFloat(str) ==
    LET Number(neg, ip, nf, s2) ==
            IF Len(ip) + nf = 0 THEN NaN
            ELSE [nan |-> FALSE,
                  inf |-> FALSE,
                  neg |-> neg,
                  ip |-> NormDigits(ip),
                  frac |-> [i \in 1..nf |-> DigitVal(s2[i + 1])]]
        Point(neg, ip, s2) ==
            Number(neg, ip,
                   IF s2 # << >> /\ Head(s2) = "." THEN DigitPrefixLen(Tail(s2)) ELSE 0, s2)
        Unsigned(neg, s1) ==
            IF s1 # << >> /\ Head(s1) = "Infinity"
            THEN [NaN EXCEPT !.nan = FALSE, !.inf = TRUE, !.neg = neg]
            ELSE Point(neg, SubSeq(s1, 1, DigitPrefixLen(s1)),
                       SubSeq(s1, DigitPrefixLen(s1) + 1, Len(s1)))
        Signed(s0) ==
            IF s0 # << >> /\ Head(s0) \in {"-", "+"}
            THEN Unsigned(Head(s0) = "-", Tail(s0))
            ELSE Unsigned(FALSE, s0)
    IN  Signed(SkipSpaces(str))

IsZero(num) == ~num.inf /\ num.ip = <<"0">> /\ \A i \in 1..Len(num.frac) : num.frac[i] = 0

FracDigit(num, i) == IF i <= Len(num.frac) THEN num.frac[i] ELSE 0

\* a digit string plus one
RECURSIVE IncDigits(_)
IncDigits(ds) ==
    IF ds = << >> THEN <<"1">>
    ELSE IF ds[Len(ds)] = "9" THEN IncDigits(SubSeq(ds, 1, Len(ds) - 1)) \o <<"0">>
    ELSE SubSeq(ds, 1, Len(ds) - 1) \o <<DigitTok[DigitVal(ds[Len(ds)]) + 2]>>

\* |num| rounded to two decimals, as <<integer digits, hundredths in 0..99>>: the
\* digits that toFixed(2) and toLocaleString(.. 2 fraction digits ..) print.  The
\* model's inputs carry at most two fraction digits, so the binary representation
\* of the number never decides a digit.
Rounded2(num) ==
    LET h == FracDigit(num, 1) * 10 + FracDigit(num, 2)
             + (IF FracDigit(num, 3) >= 5 THEN 1 ELSE 0)
    IN  IF h = 100 THEN <<IncDigits(num.ip), 0>> ELSE <<num.ip, h>>

\* num.toFixed(2).split('.')  ->  <<integer string, two-digit string>>.
\* toFixed returns String(num) for an infinite num and for |num| >= 10^21 (an
\* integer part of 22 digits or more):
\* "Infinity", or the significant digits (those before the trailing zeros, for
\* inputs of at most 15 of them) with a point after the first and "e+" and the
\* exponent; a string without a point leaves the second part undefined.
ToFixed2Parts(num) ==
    LET Split(sign, sig, exp) ==
            IF Len(sig) = 1 THEN <<sign \o sig \o exp, Undefined>>
            ELSE <<sign \o <<Head(sig)>>, Tail(sig) \o exp>>
        Exponent(sign, ip) ==
            Split(sign,
                  SubSeq(ip, 1, CHOOSE n \in 1..Len(ip) :
                                    /\ ip[n] # "0"
                                    /\ \A k \in (n + 1)..Len(ip) : ip[k] = "0"),
                  <<"e", "+">> \o NatToDigits(Len(ip) - 1))
        Fixed(sign, r) ==
            IF num.inf THEN <<sign \o <<"Infinity">>, Undefined>>
            ELSE IF Len(num.ip) >= 22 THEN Exponent(sign, num.ip)
            ELSE <<sign \o r[1], Pad2(r[2])>>
    IN  Fixed(IF num.neg /\ ~IsZero(num) THEN <<"-">> ELSE << >>, Rounded2(num))

(***************************************************************************)
(* numberToEnglish                                                         *)
(***************************************************************************)
ONES == <<<< >>, <<"One">>, <<"Two">>, <<"Three">>, <<"Four">>, <<"Five">>,
          <<"Six">>, <<"Seven">>, <<"Eight">>, <<"Nine">>>>
TEENS == <<<<"Ten">>, <<"Eleven">>, <<"Twelve">>, <<"Thirteen">>, <<"Fourteen">>,
           <<"Fifteen">>, <<"Sixteen">>, <<"Seventeen">>, <<"Eighteen">>, <<"Nineteen">>>>
TENS == <<<< >>, << >>, <<"Twenty">>, <<"Thirty">>, <<"Forty">>, <<"Fifty">>,
          <<"Sixty">>, <<"Seventy">>, <<"Eighty">>, <<"Ninety">>>>

\* tbl[i] of a JavaScript array: undefined past its end
At(tbl, i) == IF i + 1 \in 1..Len(tbl) THEN tbl[i + 1] ELSE Undefined

convertGroup(n) ==
    LET s1 == IF n >= 100 THEN At(ONES, n \div 100) \o <<" ", "Hundred", " ">> ELSE << >>
        n1 == IF n >= 100 THEN n % 100 ELSE n
        s2 == IF n1 >= 20 THEN At(TENS, n1 \div 10) \o <<" ">> ELSE << >>
        n2 == IF n1 >= 20 THEN n1 % 10 ELSE n1
        s3 == IF n2 >= 10 THEN At(TEENS, n2 - 10) \o <<" ">> ELSE << >>
        n3 == IF n2 >= 10 THEN 0 ELSE n2
        s4 == IF n3 > 0 THEN At(ONES, n3) \o <<" ">> ELSE << >>
    IN  Trim(s1 \o s2 \o s3 \o s4)

ZeroDollarsOnly == <<"Zero", " ", "Dollars", " ", "Only">>

\* The integer part is kept as a digit string: integerPart >= 10^9 is "ten digits
\* or more", Math.floor(integerPart / 10^9) the digits before the last nine and
\* integerPart % 10^9 the last nine.  A negative or NaN integerPart passes no
\* test, and neither does a NaN decimalPart.
numberToEnglish(amount) ==
    LET Units(i3) == IF i3 > 0 THEN convertGroup(i3) ELSE << >>
        Thousands(i2) ==
            IF i2 >= 1000
            THEN convertGroup(i2 \div 1000) \o <<" ", "Thousand", " ">> \o Units(i2 % 1000)
            ELSE Units(i2)
        Millions(i1) ==
            IF i1 >= 1000000
            THEN convertGroup(i1 \div 1000000) \o <<" ", "Million", " ">>
                     \o Thousands(i1 % 1000000)
            ELSE Thousands(i1)
        \* parseInt: the leading digits ds; NaN (no test passes) when there are none
        Billions(negative, ds) ==
            IF negative \/ ds = << >> THEN << >>
            ELSE IF Len(ds) >= 10
            THEN convertGroup(DigitsToNat(SubSeq(ds, 1, Len(ds) - 9)))
                     \o <<" ", "Billion", " ">>
                     \o Millions(DigitsToNat(SubSeq(ds, Len(ds) - 8, Len(ds))))
            ELSE Millions(DigitsToNat(ds))
        Cents(decimalPart) ==
            IF decimalPart > 0
            THEN <<" ", "And", " ">> \o convertGroup(decimalPart) \o <<" ", "Cents">>
            ELSE <<" ", "Only">>
        Words(parts) ==
            Trim(Billions(Head(parts[1]) = "-",
                          SubSeq(parts[1], 1, DigitPrefixLen(parts[1]))))
                \o <<" ", "Dollars">>
                \o Cents(DigitsToNat(SubSeq(parts[2], 1, DigitPrefixLen(parts[2]))))
        OfNumber(num) ==
            IF num.nan THEN ZeroDollarsOnly
            ELSE IF IsZero(num) THEN ZeroDollarsOnly
            ELSE Words(ToFixed2Parts(num))
    IN  OfNumber(ParseFloat(amount))

(***************************************************************************)
(* numberToChinese                                                         *)
(***************************************************************************)
CH_NUMS == <<<<"ling">>, <<"n1">>, <<"n2">>, <<"n3">>, <<"n4">>, <<"n5">>,
             <<"n6">>, <<"n7">>, <<"n8">>, <<"n9">>>>
CH_UNITS == <<<< >>, <<"shi">>, <<"bai">>, <<"qian">>>>
CH_GROUPS == <<<< >>, <<"wan">>, <<"yi">>, <<"zhao">>>>

LingYuanZheng == <<"ling", "yuan", "zheng">>

\* the result of a call that throws a TypeError
TypeError == <<"TypeError">>

\* parseInt(chunk) === 0: a chunk of zero digits, possibly after a sign
ChunkIsZero(chunk) ==
    LET ds == IF chunk # << >> /\ Head(chunk) = "-" THEN Tail(chunk) ELSE chunk
    IN  ds # << >> /\ \A k \in 1..Len(ds) : ds[k] = "0"

\* an inner loop that writes no ling for the zeros inside a chunk
RECURSIVE ChunkWordsNoLing(_, _, _, _)
ChunkWordsNoLing(chunk, j, chunkZero, groupResult) ==
    IF j > Len(chunk) THEN groupResult
    ELSE LET unitIdx == Len(chunk) - j
             isDigit == chunk[j] \in Digits
             numeral == IF isDigit THEN At(CH_NUMS, DigitVal(chunk[j])) ELSE Undefined
         IN  IF isDigit /\ chunk[j] = "0"
             THEN ChunkWordsNoLing(chunk, j + 1, chunkZero + 1, groupResult)
             ELSE ChunkWordsNoLing(chunk, j + 1, 0,
                      groupResult \o numeral \o At(CH_UNITS, unitIdx))

\* the inner loop over the characters of one chunk (j counts from 1)
RECURSIVE ChunkWords(_, _, _, _)
ChunkWords(chunk, j, chunkZero, groupResult) ==
    IF j > Len(chunk) THEN groupResult
    ELSE LET unitIdx == Len(chunk) - j
             isDigit == chunk[j] \in Digits
             \* parseInt of a non-digit is NaN: NaN !== 0, and CH_NUMS[NaN] is undefined
             numeral == IF isDigit THEN At(CH_NUMS, DigitVal(chunk[j])) ELSE Undefined
         IN  IF isDigit /\ chunk[j] = "0"
             THEN ChunkWords(chunk, j + 1, chunkZero + 1, groupResult)
             ELSE ChunkWords(chunk, j + 1, 0,
                      groupResult \o (IF chunkZero > 0 THEN CH_NUMS[1] ELSE << >>)
                                  \o numeral \o At(CH_UNITS, unitIdx))

\* the outer loop: 4 characters at a time from the right end of intStr
RECURSIVE ChineseInteger(_, _, _, _, _)
ChineseInteger(intStr, i, result, zeroCount, groupIndex) ==
    IF i <= 0 THEN result
    ELSE LET start == IF i - 4 > 0 THEN i - 4 ELSE 0
             chunk == SubSeq(intStr, start + 1, i)
         IN  IF ChunkIsZero(chunk)
             THEN ChineseInteger(intStr, i - 4, result,
                      IF result # << >> /\ i # Len(intStr) THEN zeroCount + 1 ELSE zeroCount,
                      groupIndex + 1)
             ELSE LET r1 == ChunkWords(chunk, 1, 0, << >>) \o At(CH_GROUPS, groupIndex) \o result
                  IN  ChineseInteger(intStr, i - 4,
                          IF zeroCount > 0 THEN CH_NUMS[1] \o r1 ELSE r1,
                          0, groupIndex + 1)

\* replace(/ling+/g, 'ling')
RECURSIVE CollapseLing(_)
CollapseLing(s) ==
    IF Len(s) < 2 THEN s
    ELSE IF s[1] = "ling" /\ s[2] = "ling" THEN CollapseLing(Tail(s))
    ELSE <<s[1]>> \o CollapseLing(Tail(s))

\* replace(/ling yuan/, 'yuan'): the first occurrence only
RECURSIVE DropLingBeforeYuan(_)
DropLingBeforeYuan(s) ==
    IF Len(s) < 2 THEN s
    ELSE IF s[1] = "ling" /\ s[2] = "yuan" THEN Tail(s)
    ELSE <<s[1]>> \o DropLingBeforeYuan(Tail(s))

\* replace(/^yuan/, 'ling yuan')
LeadingYuan(s) == IF s # << >> /\ s[1] = "yuan" THEN <<"ling">> \o s ELSE s

numberToChinese(amount) ==
    LET Fraction(jiao, fen) ==
            IF jiao = 0 /\ fen = 0 THEN <<"zheng">>
            ELSE (IF jiao > 0 THEN At(CH_NUMS, jiao) \o <<"jiao">>
                  ELSE IF jiao = 0 /\ fen > 0 THEN CH_NUMS[1] ELSE << >>)
                     \o (IF fen > 0 THEN At(CH_NUMS, fen) \o <<"fen">> ELSE << >>)
        \* parseInt(decStr[k]); -1 stands for NaN, neither === 0 nor > 0
        DecDigit(decStr, k) ==
            IF Len(decStr) >= k /\ decStr[k] \in Digits THEN DigitVal(decStr[k]) ELSE -1
        Integer(r0) == (IF r0 = << >> THEN CH_NUMS[1] ELSE r0) \o <<"yuan">>
        Words(intStr, decStr) ==
            \* line 133: decStr[0] of undefined
            IF decStr = Undefined THEN TypeError
            ELSE LeadingYuan(DropLingBeforeYuan(CollapseLing(
                     Integer(ChineseInteger(intStr, Len(intStr), << >>, 0, 0))
                         \o Fraction(DecDigit(decStr, 1), DecDigit(decStr, 2)))))
        OfParts(parts) == Words(parts[1], parts[2])
        OfNumber(num) == IF num.nan THEN LingYuanZheng ELSE OfParts(ToFixed2Parts(num))
    IN  OfNumber(ParseFloat(amount))

(***************************************************************************)
(* formatCurrency                                                          *)
(***************************************************************************)
\* en-US grouping: a comma before every group of three digits from the right
RECURSIVE GroupThousands(_)
GroupThousands(ds) ==
    IF Len(ds) <= 3 THEN ds
    ELSE GroupThousands(SubSeq(ds, 1, Len(ds) - 3)) \o <<",">> \o SubSeq(ds, Len(ds) - 2, Len(ds))

\* the numeral converter without its isNaN test: NaN.toLocaleString is "NaN"
formatCurrencyUnchecked(amount) ==
    LET Grouped(neg, r) ==
            (IF neg THEN <<"-">> ELSE << >>) \o GroupThousands(r[1]) \o <<".">> \o Pad2(r[2])
        OfNumber(num) ==
            IF num.nan THEN <<"NaN">>
            ELSE IF num.inf THEN (IF num.neg THEN <<"-">> ELSE << >>) \o <<"infinity sign">>
            ELSE Grouped(num.neg, Rounded2(num))
    IN  OfNumber(ParseFloat(amount))

formatCurrency(amount) ==
    LET Grouped(neg, r) ==
            (IF neg THEN <<"-">> ELSE << >>) \o GroupThousands(r[1]) \o <<".">> \o Pad2(r[2])
        OfNumber(num) ==
            IF num.nan THEN amount
            ELSE IF num.inf THEN (IF num.neg THEN <<"-">> ELSE << >>) \o <<"infinity sign">>
            ELSE Grouped(num.neg, Rounded2(num))
    IN  OfNumber(ParseFloat(amount))

(***************************************************************************)
(* formatDate: a date is [y, m, d]; a format is a one-token string         *)
(***************************************************************************)
MonthName == <<"January", "February", "March", "April", "May", "June", "July",
               "August", "September", "October", "November", "December">>

FmtISO == <<"YYYY-MM-DD">>
FmtDMY == <<"DD/MM/YYYY">>
FmtMDY == <<"MM/DD/YYYY">>
FmtLong == <<"DD Month YYYY">>

formatDate(date, formatStr) ==
    LET yyyy == NatToDigits(date.y)
        mm == Pad2(date.m)
        dd == Pad2(date.d)
    IN  CASE formatStr = FmtISO -> yyyy \o <<"-">> \o mm \o <<"-">> \o dd
          [] formatStr = FmtDMY -> dd \o <<"/">> \o mm \o <<"/">> \o yyyy
          [] formatStr = FmtMDY -> mm \o <<"/">> \o dd \o <<"/">> \o yyyy
          \* toLocaleDateString('en-US', {day: 'numeric', month: 'long', year: 'numeric'})
          [] formatStr = FmtLong ->
                 <<MonthName[date.m], " ">> \o NatToDigits(date.d) \o <<",", " ">> \o yyyy
          [] OTHER -> yyyy \o <<"-">> \o mm \o <<"-">> \o dd


(***************************************************************************)
(* The editor: state of EditorPage.                                        *)
(***************************************************************************)
VARIABLES
    objects,        \* useState<CanvasObject[]>: the live field collection
    history,        \* useState<CanvasObject[][]>: the snapshots
    historyIndex,   \* useState(-1): 0-based position in history
    selectedId,     \* useState<string | null>
    printValues,    \* useState<Record<string, string>>: the print-time bindings
    route,          \* the id prop: "new", or the id of a stored template
    load,           \* the promise of getTemplateById: "none", "pending", "found", "notfound"
    pending,        \* << >>, or the one closure of an image being read and decoded
    lastDeps,       \* dependency array of the resolution effect at its last run
    today,          \* what new Date() returns
    crashed,        \* a render threw: the page is gone
    run,            \* observer: records and undos since the history was initialised
    lsTemplates,    \* localStorage[LS_TEMPLATES_KEY]: the templates kept locally
    dbTemplates,    \* the rows of the cloud table 'templates'
    saving,         \* << >>, or the one handleSave awaiting saveTemplate
    saveResult,     \* newId of the last handleSave, and observer: the stores it tried
    lsHistory,      \* localStorage[LS_HISTORY_KEY]: the print records kept locally
    dbHistory,      \* the rows of the cloud table 'print_history'
    printHistory    \* PrintModal useState<PrintRecord[]>: the listed records

\* the stores and what the page holds of them
storage == <<lsTemplates, dbTemplates, saving, saveResult, lsHistory, dbHistory,
             printHistory>>

vars == <<objects, history, historyIndex, selectedId, printValues, route,
          load, pending, lastDeps, today, crashed, run, storage>>

\* no save was made and both stores are empty
NoSave == [returned |-> Undefined, cloud |-> "none", local |-> "none"]
NoStorage ==
    /\ lsTemplates = << >>
    /\ dbTemplates = << >>
    /\ saving = << >>
    /\ saveResult = NoSave
    /\ lsHistory = << >>
    /\ dbHistory = << >>
    /\ printHistory = << >>

NoId == 0

STATIC == <<"STATIC">>
VARIABLE_ == <<"VARIABLE">>
DATE == <<"DATE">>
CURRENCY_ENG == <<"CURRENCY_ENG">>
CURRENCY_CHI == <<"CURRENCY_CHI">>
CURRENCY_NUM == <<"CURRENCY_NUM">>
CUSTOMER_NAME == <<"CUSTOMER_NAME">>

LogicTypes == {STATIC, VARIABLE_, DATE, CURRENCY_ENG, CURRENCY_CHI, CURRENCY_NUM,
               CUSTOMER_NAME}

\* a text CanvasObject as the add handlers build it
TextObject(id, width, text, rawValue, logicType, dateFormat) ==
    [id |-> id, type |-> "text", x |-> DefaultX, width |-> width, text |-> text,
     rawValue |-> rawValue, variableKey |-> Undefined, logicType |-> logicType,
     dateFormat |-> dateFormat]

\* the image CanvasObject of handleFileChange
ImageObject(id) ==
    [id |-> id, type |-> "image", x |-> DefaultX, width |-> ImageWidth, text |-> << >>,
     rawValue |-> << >>, variableKey |-> Undefined, logicType |-> Undefined,
     dateFormat |-> Undefined]

Amount1234_56 == <<"1", "2", "3", "4", ".", "5", "6">>

(***************************************************************************)
(* The resolution effect.                                                  *)
(***************************************************************************)
Bound(pv, key) == key \in DOMAIN pv

\* a precedence rule that takes every binding of the key, the empty one too
effectiveValueAnyBinding(obj, pv) ==
    IF Truthy(obj.variableKey) /\ Bound(pv, obj.variableKey)
    THEN pv[obj.variableKey]
    ELSE IF obj.rawValue = Undefined THEN << >> ELSE obj.rawValue

\* a precedence rule that takes whatever binding the map holds
effectiveValueOfSomeKey(obj, pv) ==
    IF Truthy(obj.variableKey) /\ DOMAIN pv # {}
    THEN pv[CHOOSE k \in DOMAIN pv : TRUE]
    ELSE IF obj.rawValue = Undefined THEN << >> ELSE obj.rawValue

\* lines 371-373
effectiveValue(obj, pv) ==
    IF Truthy(obj.variableKey) /\ Bound(pv, obj.variableKey) /\ pv[obj.variableKey] # << >>
    THEN pv[obj.variableKey]
    ELSE IF obj.rawValue = Undefined THEN << >> ELSE obj.rawValue

Placeholder(obj) ==
    <<"{{">> \o (IF Truthy(obj.variableKey) THEN obj.variableKey ELSE <<"var">>) \o <<"}}">>

\* lines 385-389: LogicType.VARIABLE
resolveVariable(obj, pv) ==
    LET first == IF Truthy(obj.variableKey) /\ Bound(pv, obj.variableKey)
                    /\ pv[obj.variableKey] # << >>
                 THEN effectiveValue(obj, pv)
                 ELSE Placeholder(obj)
    IN  IF Truthy(obj.variableKey) /\ Bound(pv, obj.variableKey)
        THEN effectiveValue(obj, pv)
        ELSE first

\* the default branch of the switch: LogicType.STATIC and a missing logicType
resolveDefault(obj, pv) == effectiveValue(obj, pv)

resolveBoundName(obj, pv) == effectiveValue(obj, pv)

resolveCurrencyEng(obj, pv) == numberToEnglish(effectiveValue(obj, pv))

resolveCurrencyChi(obj, pv) == numberToChinese(effectiveValue(obj, pv))

resolveCurrencyNum(obj, pv) == formatCurrency(effectiveValue(obj, pv))

resolveDate(obj, date) ==
    formatDate(date, IF Truthy(obj.dateFormat) THEN obj.dateFormat ELSE FmtISO)

\* lines 375-394: the text the effect computes for a text object
newText(obj, pv, date) ==
    CASE obj.logicType = DATE -> resolveDate(obj, date)
      [] obj.logicType = CURRENCY_ENG -> resolveCurrencyEng(obj, pv)
      [] obj.logicType = CURRENCY_CHI -> resolveCurrencyChi(obj, pv)
      [] obj.logicType = CURRENCY_NUM -> resolveCurrencyNum(obj, pv)
      [] obj.logicType = VARIABLE_ -> resolveVariable(obj, pv)
      [] obj.logicType = CUSTOMER_NAME -> resolveBoundName(obj, pv)
      [] OTHER -> resolveDefault(obj, pv)

\* lines 365-396: the map over the collection
resolveAll(objs, pv, date) ==
    [i \in 1..Len(objs) |->
        IF objs[i].type = "image" THEN objs[i]
        ELSE [objs[i] EXCEPT !.text = newText(objs[i], pv, date)]]

effectDepsWithText(objs, pv) ==
    <<Len(objs), pv,
      [i \in 1..Len(objs) |-> objs[i].text \o objs[i].rawValue \o objs[i].variableKey
                                  \o objs[i].logicType]>>

\* line 402: the dependency array
effectDeps(objs, pv) ==
    <<Len(objs), pv,
      [i \in 1..Len(objs) |-> objs[i].rawValue \o objs[i].variableKey \o objs[i].logicType]>>

\* React runs the effect after a render whose dependency array differs
EffectPending == ~crashed /\ effectDeps(objects, printValues) # lastDeps

\* a user event is handled once the effects of the last render have run
Ready == ~crashed /\ ~EffectPending

(***************************************************************************)
(* Undo / redo history.                                                    *)
(***************************************************************************)
Min(a, b) == IF a < b THEN a ELSE b

\* prev.slice(0, n)
Slice(prev, n) == SubSeq(prev, 1, Min(n, Len(prev)))

\* lines 407-413: the updater passed to setHistory; closureIndex is the
\* historyIndex of the render that created saveToHistory
newHistory(prev, closureIndex, newObjects) ==
    LET h == Append(Slice(prev, closureIndex + 1), newObjects)
    IN  IF Len(h) > HistoryCap THEN Tail(h) ELSE h

\* line 414: the updater passed to setHistoryIndex
newHistoryIndex(prev) == Min(prev + 1, MaxHistoryIndex)

\* history[i] of the 0-based JavaScript array is defined
Defined(h, i) == i >= 0 /\ i < Len(h)

\* generateId: an id no field in sight carries
UsedIds ==
    {objects[i].id : i \in 1..Len(objects)}
        \cup UNION {{history[k][i].id : i \in 1..Len(history[k])} : k \in 1..Len(history)}
        \cup UNION {{pending[k].objects[i].id : i \in 1..Len(pending[k].objects)} :
                        k \in 1..Len(pending)}

generateId == CHOOSE n \in 1..(Cardinality(UsedIds) + 1) : n \notin UsedIds

(***************************************************************************)
(* The observer `run`: since the history was initialised with one snapshot *)
(* (base), r records and then u undos have been made and nothing else;     *)
(* fresh: the last step was that undo.                                      *)
(***************************************************************************)
RunOff == [on |-> FALSE, r |-> 0, u |-> 0, base |-> << >>, fresh |-> FALSE]
RunStart(b) == [on |-> TRUE, r |-> 0, u |-> 0, base |-> b, fresh |-> FALSE]
AfterRecord(rn) == IF rn.on /\ rn.u = 0 THEN [rn EXCEPT !.r = @ + 1] ELSE RunOff
AfterUndo(rn) ==
    IF rn.on /\ rn.u < rn.r THEN [rn EXCEPT !.u = @ + 1, !.fresh = TRUE] ELSE RunOff
AfterEffect(rn) == [rn EXCEPT !.fresh = FALSE]

(***************************************************************************)
(* Event handlers of EditorPage.  A handler reads the state of the render  *)
(* that created it; for the handlers of user events that is the current   *)
(* state, for the image callback the state when the file was chosen.       *)
(***************************************************************************)
\* a user event arrives while an image is being decoded
Aged(p) == [k \in 1..Len(p) |-> [p[k] EXCEPT !.age = @ + 1]]

UserReady == Ready /\ (IF pending = << >> THEN TRUE ELSE pending[1].age < MaxStale)

\* lines 417-422 with 406-415: setObjects, setHistory, setHistoryIndex in one batch
updateObjects(newObjs, closureIndex) ==
    /\ objects' = newObjs
    /\ history' = newHistory(history, closureIndex, newObjs)
    /\ historyIndex' = newHistoryIndex(historyIndex)
    /\ run' = AfterRecord(run)

\* objects.map(o => o.id === updated.id ? updated : o)
replaceById(objs, updated) ==
    [i \in 1..Len(objs) |-> IF objs[i].id = updated.id THEN updated ELSE objs[i]]

\* the add handlers, lines 440-513
addObject(newObj) ==
    /\ UserReady
    /\ updateObjects(Append(objects, newObj), historyIndex)
    /\ selectedId' = newObj.id
    /\ pending' = Aged(pending)
    /\ UNCHANGED <<printValues, route, load, lastDeps, today, crashed, storage>>

handleAddText ==
    addObject(TextObject(generateId, TextWidth, <<"Text">>, <<"Text">>, STATIC, Undefined))

handleAddDate ==
    addObject(TextObject(generateId, TextWidth, <<"{{", "date", "}}">>,
                         <<"{{", "date", "}}">>, DATE, FmtISO))

handleAddCurrencyEng ==
    addObject(TextObject(generateId, CurrencyWidth, <<"{{", "amount", "}}">>,
                         Amount1234_56, CURRENCY_ENG, Undefined))

\* CanvasArea onDragEnd -> onChangeObject, lines 692-695
dragEnd(i, p) ==
    /\ UserReady
    /\ i \in 1..Len(objects)
    /\ updateObjects(replaceById(objects, [objects[i] EXCEPT !.x = p]), historyIndex)
    /\ pending' = Aged(pending)
    /\ UNCHANGED <<selectedId, printValues, route, load, lastDeps, today, crashed, storage>>

\* lines 557-561
handleDeleteObject(objId) ==
    /\ UserReady
    /\ updateObjects(SelectSeq(objects, LAMBDA o : o.id # objId), historyIndex)
    /\ selectedId' = IF selectedId = objId THEN NoId ELSE selectedId
    /\ pending' = Aged(pending)
    /\ UNCHANGED <<printValues, route, load, lastDeps, today, crashed, storage>>

\* the Sidebar's delete button: shown for the selected object
deleteSelected ==
    /\ UserReady
    /\ \E i \in 1..Len(objects) : objects[i].id = selectedId
    /\ handleDeleteObject(selectedId)

\* an undo without the test of line 425
handleUndoUnguarded ==
    /\ UserReady
    /\ LET newIndex == historyIndex - 1
       IN  /\ historyIndex' = newIndex
           /\ IF Defined(history, newIndex)
              THEN objects' = history[newIndex + 1] /\ crashed' = FALSE
              ELSE objects' = Undefined /\ crashed' = TRUE
    /\ run' = AfterUndo(run)
    /\ pending' = Aged(pending)
    /\ UNCHANGED <<history, selectedId, printValues, route, load, lastDeps, today, storage>>

\* lines 424-430; history[newIndex] of a position past the end is undefined,
\* and the next render throws on objects.length
handleUndo ==
    /\ UserReady
    /\ historyIndex > 0
    /\ LET newIndex == historyIndex - 1
       IN  /\ historyIndex' = newIndex
           /\ IF Defined(history, newIndex)
              THEN objects' = history[newIndex + 1] /\ crashed' = FALSE
              ELSE objects' = Undefined /\ crashed' = TRUE
    /\ run' = AfterUndo(run)
    /\ pending' = Aged(pending)
    /\ UNCHANGED <<history, selectedId, printValues, route, load, lastDeps, today, storage>>

\* lines 432-438
handleRedo ==
    /\ UserReady
    /\ historyIndex < Len(history) - 1
    /\ LET newIndex == historyIndex + 1
       IN  /\ historyIndex' = newIndex
           /\ objects' = history[newIndex + 1]
    /\ run' = RunOff
    /\ pending' = Aged(pending)
    /\ UNCHANGED <<history, selectedId, printValues, route, load, lastDeps, today,
                   crashed, storage>>

\* lines 519-523, 553: the file is chosen; reader.onload and img.onload will run
\* in the closure of this render
handleFileChange ==
    /\ UserReady
    /\ pending = << >>
    /\ pending' = <<[objects |-> objects, historyIndex |-> historyIndex, age |-> 0]>>
    /\ UNCHANGED <<objects, history, historyIndex, selectedId, printValues, route,
                   load, lastDeps, today, crashed, run, storage>>

\* lines 528-551: img.onload
imageLoaded ==
    /\ Ready
    /\ pending # << >>
    /\ LET c == pending[1]
           newObj == ImageObject(generateId)
       IN  /\ updateObjects(Append(c.objects, newObj), c.historyIndex)
           /\ selectedId' = newObj.id
    /\ pending' = << >>
    /\ UNCHANGED <<printValues, route, load, lastDeps, today, crashed, storage>>

\* a load that appends to the snapshots it finds instead of replacing them
loadedHistoryAppended(t) == Append(history, t)

\* line 343: setHistory([t.objects])
loadedHistory(t) == <<t>>

\* lines 335-345: getTemplateById resolved with template t; React applies the six
\* setState calls of the callback in one batch
loadComplete(t) ==
    /\ Ready
    /\ load = "pending"
    /\ load' = "found"
    /\ objects' = t
    /\ history' = loadedHistory(t)
    /\ historyIndex' = 0
    /\ run' = RunStart(t)
    /\ UNCHANGED <<selectedId, printValues, route, pending, lastDeps, today, crashed, storage>>

\* line 336: getTemplateById resolved with null
loadNotFound ==
    /\ Ready
    /\ load = "pending"
    /\ load' = "notfound"
    /\ UNCHANGED <<objects, history, historyIndex, selectedId, printValues, route,
                   pending, lastDeps, today, crashed, run, storage>>

\* lines 363-402: the resolution effect
resolutionEffect ==
    /\ EffectPending
    /\ LET updated == resolveAll(objects, printValues, today)
           thrown == \E i \in 1..Len(updated) : updated[i].text = TypeError
       IN  /\ objects' = IF thrown THEN Undefined ELSE updated
           /\ crashed' = thrown
    /\ lastDeps' = effectDeps(objects, printValues)
    /\ run' = AfterEffect(run)
    /\ UNCHANGED <<history, historyIndex, selectedId, printValues, route, load,
                   pending, today, storage>>

(***************************************************************************)
(* Initial states: the page after mounting (lines 306-351).                *)
(***************************************************************************)
EmptyMap == << >>
Date1 == [y |-> 2026, m |-> 1, d |-> 5]

\* a stored template: one static text field
StoredText == [TextObject(7, TextWidth, <<"Text">>, <<"Text">>, STATIC, Undefined)
                  EXCEPT !.x = DefaultX + 10]
Templates == {<<StoredText>>}

InitNew ==
    /\ route = "new"
    /\ load = "none"
    /\ history = << << >> >>
    /\ historyIndex = 0
    /\ run = RunStart(<< >>)

InitStored ==
    /\ route = "stored"
    /\ load = "pending"
    /\ history = << >>
    /\ historyIndex = -1
    /\ run = RunOff

InitCommon ==
    /\ objects = << >>
    /\ selectedId = NoId
    /\ printValues = EmptyMap
    /\ pending = << >>
    /\ lastDeps = effectDeps(<< >>, EmptyMap)
    /\ today = Date1
    /\ crashed = FALSE
    /\ NoStorage

Init == InitCommon /\ (InitNew \/ InitStored)

\* where a drag can end
Positions == {DefaultX, DefaultX + 10}

\* the bounds of the shallow specification
Room == Len(history) < MaxHistory
CanAdd == Len(objects) < MaxObjects
RoomForImage == pending # << >> /\ Min(pending[1].historyIndex + 1, Len(history)) < MaxHistory

Next ==
    \/ Room /\ CanAdd /\ handleAddText
    \/ Room /\ CanAdd /\ handleAddCurrencyEng
    \/ Room /\ UserReady /\ \E i \in 1..Len(objects) : \E p \in Positions : dragEnd(i, p)
    \/ Room /\ deleteSelected
    \/ handleUndo
    \/ handleRedo
    \/ CanAdd /\ handleFileChange
    \/ RoomForImage /\ imageLoaded
    \/ \E t \in Templates : loadComplete(t)
    \/ loadNotFound
    \/ resolutionEffect

Spec == Init /\ [][Next]_vars

(***************************************************************************)
(* Steps of the history, told by what they do to it.                       *)
(***************************************************************************)
LoadStep == load = "pending" /\ load' # "pending"
RecordStep == history' # history /\ ~LoadStep
UndoStep == historyIndex' = historyIndex - 1 /\ history' = history /\ ~LoadStep
RedoStep == historyIndex' = historyIndex + 1 /\ history' = history /\ ~LoadStep

\* C1: a record made while the index is i keeps the snapshots up to position i,
\* drops every later one, appends the new snapshot as the last element and
\* leaves the index on it.
C1_RecordDiscardsRedoBranch ==
    [][RecordStep =>
        /\ history' = Append(Slice(history, historyIndex + 1), objects')
        /\ historyIndex' = Len(history') - 1]_vars

\* C3: from a history of one snapshot at index 0, N records followed by N undos
\* leave the live collection equal to that snapshot and the index at 0; every
\* one of the N undos can be made.
C3_RecordsThenUndosRestore ==
    run.on =>
        /\ ~crashed
        /\ (run.fresh /\ run.u = run.r) => (objects = run.base /\ historyIndex = 0)

\* C4: an undo followed at once by a redo gives back the index and the fields
\* the page had before the undo (compared without their display texts, which the
\* resolution pass owns), and leaves the snapshots as they were.
C4_UndoThenRedoRestores ==
    [][UndoStep =>
        LET canRedo == historyIndex' < Len(history') - 1
            redoIndex == IF canRedo THEN historyIndex' + 1 ELSE historyIndex'
            Untexted(objs) ==
                [i \in 1..Len(objs) |->
                    IF objs[i].type = "text" THEN [objs[i] EXCEPT !.text = << >>]
                    ELSE objs[i]]
        IN  /\ ~crashed'
            /\ history' = history
            /\ redoIndex = historyIndex
            /\ Untexted(IF canRedo THEN history'[redoIndex + 1] ELSE objects')
                  = Untexted(objects)]_vars

\* C5: right after a record, an undo or a redo the snapshot at the current index
\* is the live collection.
C5_SnapshotAtIndexIsLive ==
    [][(RecordStep \/ UndoStep \/ RedoStep) =>
        /\ Defined(history', historyIndex')
        /\ history'[historyIndex' + 1] = objects']_vars

\* C6: the step in which a load completes with a template replaces the live
\* collection by the template's fields and resets the history to that one
\* snapshot at index 0, all in the same step.
C6_LoadReplacesAtomically ==
    [][(load = "pending" /\ load' = "found") =>
        \E t \in Templates :
            /\ objects' = t
            /\ history' = <<t>>
            /\ historyIndex' = 0]_vars

\* a load that completed after the user had already added a field
C6_Witness ==
    /\ load = "found"
    /\ selectedId # NoId
    /\ objects \in Templates
    /\ history = <<objects>>
    /\ historyIndex = 0

\* C7: once the resolution pass has settled, the display text of every text
\* field that is not a Date is what the pass computes from the field and the
\* bindings.
C7_SettledTextIsResolved ==
    Ready =>
        \A i \in 1..Len(objects) :
            (objects[i].type = "text" /\ objects[i].logicType # DATE) =>
                objects[i].text = newText(objects[i], printValues, today)

(***************************************************************************)
(* The history at its cap: one text field is moved to the right one unit   *)
(* at a time until an image is inserted, which is done once the history is *)
(* full.                                                                   *)
(***************************************************************************)
InitCap ==
    /\ route = "stored"
    /\ load = "found"
    /\ objects = <<StoredText>>
    /\ history = <<objects>>
    /\ historyIndex = 0
    /\ selectedId = NoId
    /\ printValues = EmptyMap
    /\ pending = << >>
    /\ lastDeps = effectDeps(objects, EmptyMap)
    /\ today = Date1
    /\ crashed = FALSE
    /\ NoStorage
    /\ run = RunStart(objects)

FullHistory == Len(history) = HistoryCap
NoImageYet ==
    /\ ~crashed
    /\ \A i \in 1..Len(objects) : objects[i].type = "text"
    /\ \A k \in 1..Len(history) : \A i \in 1..Len(history[k]) : history[k][i].type = "text"

\* CanvasArea onDragEnd of the first field, one unit to the right
nudge ==
    /\ UserReady
    /\ objects[1].x < StoredText.x + MaxRecords
    /\ dragEnd(1, objects[1].x + 1)

NextCap ==
    \/ NoImageYet /\ nudge
    \/ handleUndo
    \/ handleRedo
    \/ FullHistory /\ NoImageYet /\ handleFileChange
    \/ imageLoaded
    \/ resolutionEffect

SpecCap == InitCap /\ [][NextCap]_vars

\* C2: the history never holds more than 50 snapshots, and a record made at
\* the last position of a full history drops the oldest snapshot, appends the
\* new one and leaves the index on it.
C2_CapKeepsMostRecent ==
    [][/\ Len(history') <= HistoryCap
       /\ (RecordStep /\ Len(history) = HistoryCap /\ historyIndex = HistoryCap - 1) =>
             /\ history' = Append(Tail(history), objects')
             /\ historyIndex' = HistoryCap - 1]_vars

(***************************************************************************)
(* The resolution pass on one stored text field, under the bindings the    *)
(* print dialog sends (PrintModal.tsx).                                    *)
(***************************************************************************)
Key == <<"k">>
RawValues == {<<"Text">>, << >>, Amount1234_56}
VariableKeys == {Undefined, << >>, Key}
BoundValues == {<< >>, <<"Bob">>, <<"9", "9">>}
\* the data of stored print records
\* a key no field of the template carries (a record made before a key was renamed)
OtherKey == <<"j">>
PrintRecords == {EmptyMap, Key :> <<"Bob">>, OtherKey :> <<"Zed">>,
                 (Key :> <<"Bob">>) @@ (OtherKey :> <<"Zed">>)}

\* PrintModal lines 41-45: uniqueVars
variables(objs) ==
    {objs[i].variableKey :
        i \in {j \in 1..Len(objs) :
                  Truthy(objs[j].variableKey) /\ Trim(objs[j].variableKey) # << >>}}

\* PrintModal lines 50-61: the dialog's values, '' for a variable with no entry
values ==
    [k \in variables(objects) \cup DOMAIN printValues |->
        IF k \in DOMAIN printValues THEN printValues[k] ELSE << >>]

\* PrintModal lines 70-74 -> onValuesChange -> setPrintValues
handleChange(key, val) ==
    /\ Ready
    /\ printValues' = [k \in DOMAIN values \cup {key} |-> IF k = key THEN val ELSE values[k]]
    /\ UNCHANGED <<objects, history, historyIndex, selectedId, route, load, pending,
                   lastDeps, today, crashed, run, storage>>

\* PrintModal lines 76-80
handleHistoryClick(data) ==
    /\ Ready
    /\ printValues' = data
    /\ UNCHANGED <<objects, history, historyIndex, selectedId, route, load, pending,
                   lastDeps, today, crashed, run, storage>>

InitResolve ==
    /\ route = "stored"
    /\ load = "found"
    /\ \E lt \in LogicTypes : \E rv \in RawValues : \E vk \in VariableKeys :
          objects = <<[TextObject(1, TextWidth, rv, rv, lt,
                                  IF lt = DATE THEN FmtISO ELSE Undefined)
                          EXCEPT !.variableKey = vk]>>
    /\ history = <<objects>>
    /\ historyIndex = 0
    /\ selectedId = NoId
    /\ printValues = EmptyMap
    /\ pending = << >>
    /\ lastDeps = effectDeps(<< >>, EmptyMap)
    /\ today = Date1
    /\ crashed = FALSE
    /\ NoStorage
    /\ run = RunOff

\* the wall clock passes midnight; no state of the page changes with it
Date2 == [y |-> 2026, m |-> 1, d |-> 6]
dayPasses ==
    /\ ~crashed
    /\ today = Date1
    /\ today' = Date2
    /\ UNCHANGED <<objects, history, historyIndex, selectedId, printValues, route, load,
                   pending, lastDeps, crashed, run, storage>>

\* CanvasArea lines 218-221, 286-290 and 152-158: after a double click the
\* textarea holds the displayed text; a typed character sends the new value as
\* text and as rawValue
inlineEdit(i) ==
    /\ UserReady
    /\ objects[i].type = "text"
    /\ LET value == objects[i].text \o <<"!">>
       IN  updateObjects(replaceById(objects, [objects[i] EXCEPT !.text = value,
                                                                !.rawValue = value]),
                         historyIndex)
    /\ selectedId' = objects[i].id
    /\ pending' = Aged(pending)
    /\ UNCHANGED <<printValues, route, load, lastDeps, today, crashed, storage>>

NextResolve ==
    \/ dayPasses
    \/ Room /\ UserReady /\ \E i \in 1..Len(objects) : inlineEdit(i)
    \/ \E key \in variables(objects) : \E val \in BoundValues : handleChange(key, val)
    \/ \E data \in PrintRecords : handleHistoryClick(data)
    \/ resolutionEffect

SpecResolve == InitResolve /\ [][NextResolve]_vars

\* C8: the settled display text of a Static field is its rawValue, whatever
\* its variableKey and the bindings are.
C8_StaticIsRawValue ==
    Ready =>
        \A i \in 1..Len(objects) :
            objects[i].logicType = STATIC => objects[i].text = objects[i].rawValue

\* C9: the settled display text of a Variable field is the binding of its key
\* when that is bound and non-empty, and otherwise the placeholder made of the
\* key ("var" when no key is set), whatever rawValue is.
C9_VariableIsBindingOrPlaceholder ==
    Ready =>
        \A i \in 1..Len(objects) :
            LET o == objects[i]
                BoundNonEmpty ==
                    /\ o.variableKey \notin {Undefined, << >>}
                    /\ o.variableKey \in DOMAIN printValues
                    /\ printValues[o.variableKey] # << >>
                name == IF o.variableKey \in {Undefined, << >>}
                        THEN <<"var">> ELSE o.variableKey
            IN  o.logicType = VARIABLE_ =>
                    o.text = IF BoundNonEmpty
                             THEN printValues[o.variableKey]
                             ELSE <<"{{">> \o name \o <<"}}">>

IntegerParts ==
    {NatToDigits(n) : n \in {0, 1, 11, 20, 21, 100, 101, 999, 1000, 1011, 1234, 10001,
                             100000, 100500, 1000000, 1000001, 100001000, 100000001,
                             1000000000}}
        \cup {NatToDigits(999999) \o NatToDigits(999999),
              <<"1">> \o [k \in 1..12 |-> IF k = 12 THEN "1" ELSE "0"],
              <<"1">> \o [k \in 1..21 |-> "0"]}

Fractions == {<< >>, <<".", "5">>, <<".", "0", "5">>, <<".", "5", "6">>, <<".", "9", "9">>}

\* typed values that parseFloat gives no digits for
Unparseable == {<< >>, <<"Text">>, <<"a", "b", "c">>, <<"-">>, <<".">>, <<" ">>, <<"$", "5">>}

\* the options of the date-format selector, Sidebar lines 255-261
DateFormats == {FmtISO, FmtDMY, FmtMDY, FmtLong, <<"YYYY">>, <<"MM">>, <<"DD">>}

InitConvert ==
    /\ route = "stored"
    /\ load = "found"
    /\ \/ \E lt \in {CURRENCY_ENG, CURRENCY_CHI, CURRENCY_NUM} :
          \E rv \in {ip \o f : ip \in IntegerParts, f \in Fractions}
                        \cup Unparseable \cup {<<"Infinity">>, <<"-", "5">>} :
              objects = <<TextObject(1, CurrencyWidth, rv, rv, lt, Undefined)>>
       \/ objects = <<TextObject(1, TextWidth, <<"{{", "date", "}}">>,
                                 <<"{{", "date", "}}">>, DATE, FmtISO)>>
    /\ history = <<objects>>
    /\ historyIndex = 0
    /\ selectedId = NoId
    /\ printValues = EmptyMap
    /\ pending = << >>
    /\ lastDeps = effectDeps(<< >>, EmptyMap)
    /\ today = Date1
    /\ crashed = FALSE
    /\ NoStorage
    /\ run = RunOff

\* CanvasArea onSelect={setSelectedId}: a click on a field
onSelect(id) ==
    /\ UserReady
    /\ selectedId # id
    /\ selectedId' = id
    /\ UNCHANGED <<objects, history, historyIndex, printValues, route, load, pending,
                   lastDeps, today, crashed, run, storage>>

\* Sidebar lines 49-60 -> onUpdateObject (lines 676-680)
handleDateFormatChange(newFormat) ==
    /\ UserReady
    /\ \E i \in 1..Len(objects) :
          /\ objects[i].id = selectedId
          /\ objects[i].logicType = DATE
          /\ updateObjects(replaceById(objects,
                               [objects[i] EXCEPT !.dateFormat = newFormat,
                                                  !.text = formatDate(today, newFormat)]),
                           historyIndex)
    /\ pending' = Aged(pending)
    /\ UNCHANGED <<selectedId, printValues, route, load, lastDeps, today, crashed, storage>>

NextConvert ==
    \/ resolutionEffect
    \/ \E i \in 1..(IF crashed THEN 0 ELSE Len(objects)) : onSelect(objects[i].id)
    \/ Room /\ \E f \in DateFormats : handleDateFormatChange(f)

SpecConvert == InitConvert /\ [][NextConvert]_vars

\* C11: the settled display text of a Date field is the current date in the
\* field's dateFormat, also after the wall-clock date has changed.
C11_DateTextIsToday ==
    Ready =>
        \A i \in 1..Len(objects) :
            objects[i].logicType = DATE =>
                objects[i].text = formatDate(today, IF Truthy(objects[i].dateFormat)
                                                    THEN objects[i].dateFormat ELSE FmtISO)

\* C12: no rawValue holds a value that came from the bindings: the stored
\* rawValues of the model never begin with a bound value, so a rawValue that
\* does was copied from displayed bound text.
C12_BindingsNeverInRawValue ==
    ~crashed =>
        \A i \in 1..Len(objects) : \A k \in DOMAIN printValues :
            LET b == printValues[k]
                rv == objects[i].rawValue
            IN  b # << >> => ~(Len(b) <= Len(rv) /\ SubSeq(rv, 1, Len(b)) = b)

\* C13: a run of the resolution pass leaves a collection that the pass maps to
\* itself, and the dependencies of the effect are then those it ran with, so
\* the effect is not scheduled again by its own update.
C13_ResolutionIsFixedPoint ==
    [][lastDeps' # lastDeps =>
        /\ resolveAll(objects', printValues', today') = objects'
        /\ ~EffectPending']_vars

\* the pass has rewritten the text of a Chinese currency field
C13_Witness ==
    /\ Ready
    /\ \E i \in 1..Len(objects) :
          /\ objects[i].logicType = CURRENCY_CHI
          /\ objects[i].text = LingYuanZheng
          /\ objects[i].text # objects[i].rawValue

\* C14: for every text field and every two bindings maps that agree on the
\* field's variableKey, the resolution pass computes the same text under both.
C14_UnrelatedKeyHasNoInfluence ==
    ~crashed =>
        LET BindingMaps ==
                UNION {[D -> BoundValues \cup {<<"Zed">>}] : D \in SUBSET {Key, OtherKey}}
            AgreeOn(pv1, pv2, k) ==
                /\ k \in DOMAIN pv1 <=> k \in DOMAIN pv2
                /\ k \in DOMAIN pv1 => pv1[k] = pv2[k]
        IN  \A i \in 1..Len(objects) : \A pv1 \in BindingMaps \cup {printValues} :
                \A pv2 \in BindingMaps :
                    objects[i].type = "text" /\ AgreeOn(pv1, pv2, objects[i].variableKey)
                        => newText(objects[i], pv1, today) = newText(objects[i], pv2, today)

\* a field bound through its own key while a record also binds another key
C14_Witness ==
    /\ Ready
    /\ OtherKey \in DOMAIN printValues
    /\ \E i \in 1..Len(objects) :
          /\ objects[i].variableKey = Key
          /\ Key \in DOMAIN printValues
          /\ objects[i].text = printValues[Key]
          /\ objects[i].text # printValues[OtherKey]

\* C15: when the resolution pass runs over a currency field whose value gives
\* parseFloat no number, the pass does not throw, and the field shows 'Zero
\* Dollars Only' (English), ling-yuan-zheng (Chinese) or the value itself
\* (numeral).
C15_UnparseableFallbacks ==
    [][lastDeps' # lastDeps =>
        \A i \in 1..Len(objects) :
            LET o == objects[i]
            IN  o.logicType \in {CURRENCY_ENG, CURRENCY_CHI, CURRENCY_NUM}
                    /\ ParseFloat(effectiveValue(o, printValues)).nan
                => /\ ~crashed'
                   /\ o.logicType = CURRENCY_ENG => objects'[i].text = ZeroDollarsOnly
                   /\ o.logicType = CURRENCY_CHI => objects'[i].text = LingYuanZheng
                   /\ o.logicType = CURRENCY_NUM
                          => objects'[i].text = effectiveValue(o, printValues)]_vars

\* a numeral field whose typed value "$5" has been passed through
C15_Witness ==
    /\ Ready
    /\ \E i \in 1..Len(objects) :
          /\ objects[i].logicType = CURRENCY_NUM
          /\ objects[i].rawValue = <<"$", "5">>
          /\ objects[i].text = <<"$", "5">>
          /\ lastDeps # effectDeps(<< >>, EmptyMap)

\* C16: for an amount that is 0 or lies between 0.01 and 999,999,999,999.99 with
\* at most two decimals, the settled text of an English currency field is the
\* words of every nonzero three-digit group with its scale word, then
\* 'Dollars', then 'And <cents> Cents' or 'Only', all joined by single spaces;
\* amount 0 gives 'Zero Dollars Only'.
C16_EnglishWordSequence ==
    Ready =>
        \A i \in 1..Len(objects) :
            LET num == ParseFloat(objects[i].rawValue)
                padded == [k \in 1..(12 - Len(num.ip)) |-> "0"] \o num.ip
                Sp(a, b) == IF a = << >> THEN b
                            ELSE IF b = << >> THEN a
                            ELSE a \o <<" ">> \o b
                Group(k, scale) ==
                    IF DigitsToNat(SubSeq(padded, 3 * k - 2, 3 * k)) = 0 THEN << >>
                    ELSE Sp(convertGroup(DigitsToNat(SubSeq(padded, 3 * k - 2, 3 * k))), scale)
                cents == 10 * FracDigit(num, 1) + FracDigit(num, 2)
                words == Sp(Sp(Sp(Sp(Sp(Group(1, <<"Billion">>), Group(2, <<"Million">>)),
                                     Group(3, <<"Thousand">>)),
                                  Group(4, << >>)),
                               <<"Dollars">>),
                            IF cents > 0
                            THEN <<"And", " ">> \o convertGroup(cents) \o <<" ", "Cents">>
                            ELSE <<"Only">>)
            IN  /\ objects[i].logicType = CURRENCY_ENG
                /\ ~num.nan /\ ~num.inf /\ ~num.neg
                /\ Len(num.ip) <= 12 /\ Len(num.frac) <= 2
                => objects[i].text = IF IsZero(num) THEN ZeroDollarsOnly ELSE words

\* C17: the settled text of a Chinese currency field does not begin with ling
\* when the integer part of the amount is nonzero, and when an all-zero 4-digit
\* chunk lies between a higher and a lower nonzero chunk, a big-unit word (wan,
\* yi, zhao) of the text is followed by the one bridging ling.
C17_BridgingLingBetweenChunks ==
    Ready =>
        \A i \in 1..Len(objects) :
            LET num == ParseFloat(objects[i].rawValue)
                text == objects[i].text
                padded == [k \in 1..(16 - Len(num.ip)) |-> "0"] \o num.ip
                NonZero(c) == DigitsToNat(SubSeq(padded, 4 * c - 3, 4 * c)) # 0
                zeroChunkBetween ==
                    \E a, b, c \in 1..4 :
                        a < b /\ b < c /\ NonZero(a) /\ ~NonZero(b) /\ NonZero(c)
            IN  /\ objects[i].logicType = CURRENCY_CHI
                /\ ~num.nan /\ ~num.inf /\ ~num.neg
                /\ Len(num.ip) <= 16 /\ num.ip # <<"0">>
                => /\ text[1] # "ling"
                   /\ zeroChunkBetween =>
                          \E k \in 1..(Len(text) - 1) :
                              text[k] \in {"wan", "yi", "zhao"} /\ text[k + 1] = "ling"

\* C18: when the resolution pass runs over a Chinese currency field whose value
\* parses to a non-negative amount, the pass does not throw, the text after
\* yuan is zheng (jiao and fen both 0), ling-fen digit-fen (jiao 0), or jiao
\* digit-jiao with fen digit-fen only for a nonzero fen, and no two ling are
\* adjacent in the text.
C18_ChineseFractionPart ==
    [][lastDeps' # lastDeps =>
        \A i \in 1..Len(objects) :
            LET num == ParseFloat(effectiveValue(objects[i], printValues))
                text == objects'[i].text
                yuan == CHOOSE k \in 1..Len(text) : text[k] = "yuan"
                jiao == Rounded2(num)[2] \div 10
                fen == Rounded2(num)[2] % 10
            IN  objects[i].logicType = CURRENCY_CHI /\ ~num.nan /\ ~num.neg
                => /\ ~crashed'
                   /\ SubSeq(text, yuan + 1, Len(text)) =
                          IF jiao = 0 /\ fen = 0 THEN <<"zheng">>
                          ELSE IF jiao = 0 THEN CH_NUMS[1] \o CH_NUMS[fen + 1] \o <<"fen">>
                          ELSE CH_NUMS[jiao + 1] \o <<"jiao">>
                                   \o (IF fen # 0 THEN CH_NUMS[fen + 1] \o <<"fen">>
                                       ELSE << >>)
                   /\ \A k \in 1..(Len(text) - 1) : ~(text[k] = "ling" /\ text[k + 1] = "ling")
       ]_lastDeps

\* C19: the settled text of a numeral currency field whose value parses is the
\* amount with exactly two decimal digits and a comma before every group of
\* three integer digits counted from the right.
C19_NumeralGrouping ==
    Ready =>
        \A i \in 1..Len(objects) :
            LET num == ParseFloat(objects[i].rawValue)
                text == objects[i].text
                body == IF text # << >> /\ Head(text) = "-" THEN Tail(text) ELSE text
                int == SubSeq(body, 1, Len(body) - 3)
            IN  objects[i].logicType = CURRENCY_NUM /\ ~num.nan
                => /\ Len(body) >= 4
                   /\ body[Len(body) - 2] = "."
                   /\ body[Len(body) - 1] \in Digits /\ body[Len(body)] \in Digits
                   /\ \A k \in 1..Len(int) :
                          IF (Len(int) - k + 1) % 4 = 0 THEN int[k] = ","
                          ELSE int[k] \in Digits
                   /\ int[1] # ","
                   /\ SelectSeq(int, LAMBDA t : t # ",") = Rounded2(num)[1]
                   /\ SubSeq(body, Len(body) - 1, Len(body)) = Pad2(Rounded2(num)[2])

\* C20: the settled text of a Date field is the bare year, month or day for
\* the formats 'YYYY', 'MM' and 'DD' of the selector, the ISO, day/month/year,
\* month/day/year and long forms for their formats, and the ISO form for every
\* other format.
C20_DateFormats ==
    Ready =>
        \A i \in 1..Len(objects) :
            LET f == objects[i].dateFormat
            IN  objects[i].logicType = DATE =>
                    objects[i].text =
                        CASE f = <<"YYYY">> -> NatToDigits(today.y)
                          [] f = <<"MM">> -> Pad2(today.m)
                          [] f = <<"DD">> -> Pad2(today.d)
                          [] f = FmtDMY -> Pad2(today.d) \o <<"/">> \o Pad2(today.m)
                                               \o <<"/">> \o NatToDigits(today.y)
                          [] f = FmtMDY -> Pad2(today.m) \o <<"/">> \o Pad2(today.d)
                                               \o <<"/">> \o NatToDigits(today.y)
                          [] f = FmtLong -> <<MonthName[today.m], " ">> \o NatToDigits(today.d)
                                                \o <<",", " ">> \o NatToDigits(today.y)
                          [] OTHER -> NatToDigits(today.y) \o <<"-">> \o Pad2(today.m)
                                          \o <<"-">> \o Pad2(today.d)

(***************************************************************************)
(* Rendering: CanvasArea and PrintView draw a sorted copy of the fields.   *)
(***************************************************************************)
\* a comparator that puts text first
compareTextFirst(a, b) ==
    IF a.type = "image" /\ b.type # "image" THEN 1
    ELSE IF a.type # "image" /\ b.type = "image" THEN -1
    ELSE 0

\* CanvasArea lines 97-101, PrintView lines 11-15: the comparator
compareKinds(a, b) ==
    IF a.type = "image" /\ b.type # "image" THEN -1
    ELSE IF a.type # "image" /\ b.type = "image" THEN 1
    ELSE 0

\* Array.prototype.sort is stable: an element goes behind the last element
\* that the comparator does not put after it
RECURSIVE insertOrdered(_, _)
insertOrdered(sorted, o) ==
    IF sorted = << >> THEN <<o>>
    ELSE IF compareKinds(sorted[Len(sorted)], o) <= 0 THEN Append(sorted, o)
    ELSE Append(insertOrdered(SubSeq(sorted, 1, Len(sorted) - 1), o), sorted[Len(sorted)])

\* [...objects].sort(comparator): the sorted copy
RECURSIVE sortedObjects(_)
sortedObjects(objs) ==
    IF objs = << >> THEN << >>
    ELSE insertOrdered(sortedObjects(SubSeq(objs, 1, Len(objs) - 1)), objs[Len(objs)])

\* stored templates of up to MaxFields fields, every order of the two kinds
StoredCollections ==
    {[i \in DOMAIN kinds |->
         IF kinds[i] = "image" THEN ImageObject(i)
         ELSE TextObject(i, TextWidth, <<"Text">>, <<"Text">>, STATIC, Undefined)] :
        kinds \in UNION {[1..m -> {"text", "image"}] : m \in 0..MaxFields}}

NextRender ==
    \/ \E t \in StoredCollections : loadComplete(t)
    \/ Room /\ Len(objects) <= MaxFields /\ handleAddText
    \/ Len(objects) <= MaxFields /\ handleFileChange
    \/ RoomForImage /\ imageLoaded
    \/ resolutionEffect

SpecRender == Init /\ [][NextRender]_vars

\* C21: the render order (canvas and print view) has every image before every
\* text field and keeps the collection order among the images and among the
\* text fields; it is a copy, of the same fields.
C21_ImagesRenderBeneathText ==
    ~crashed =>
        LET s == sortedObjects(objects)
            IsImage(o) == o.type = "image"
            IsText(o) == o.type # "image"
        IN  /\ Len(s) = Len(objects)
            /\ \A i, j \in 1..Len(s) : IsImage(s[j]) /\ IsText(s[i]) => j < i
            /\ SelectSeq(s, IsImage) = SelectSeq(objects, IsImage)
            /\ SelectSeq(s, IsText) = SelectSeq(objects, IsText)

\* an image added after text fields is drawn first
C21_Witness ==
    /\ Ready
    /\ Len(objects) >= 3
    /\ objects[1].type = "text"
    /\ objects[Len(objects)].type = "image"
    /\ sortedObjects(objects)[1].type = "image"
    /\ sortedObjects(objects) # objects

\* C22: no step taken at index 0 is an undo (the index going down with the
\* snapshots kept) and no step taken at the last position is a redo: there the
\* two handlers leave the collection, the snapshots and the index as they were.
C22_UndoRedoNoOpAtEnds ==
    [][/\ historyIndex = 0 => ~UndoStep
       /\ historyIndex = Len(history) - 1 => ~RedoStep]_<<history, historyIndex>>

\* undos have led back to index 0, with the undone snapshots kept for redo
C22_Witness ==
    /\ Ready
    /\ run.u >= 1
    /\ historyIndex = 0
    /\ Len(history) >= 2

\* C26: in the settled text of a Chinese currency field the words before yuan
\* are, chunk by chunk from the most significant one, the words of every
\* nonzero 4-digit chunk: each nonzero digit as its numeral and its unit
\* (none, shi, bai, qian), one ling before a nonzero digit that follows a zero
\* digit of the chunk, nothing for trailing zeros, then the chunk's big-unit
\* word (zhao, yi, wan, none).  Only a bridging ling may stand before a chunk.
C26_ChunkWords ==
    Ready =>
        \A i \in 1..Len(objects) :
            LET num == ParseFloat(objects[i].rawValue)
                text == objects[i].text
                Padded(ip) == [k \in 1..(16 - Len(ip)) |-> "0"] \o ip
                Digit(ip, c, j) == Padded(ip)[4 * (c - 1) + j]
                NonZero(ip, c) == \E j \in 1..4 : Digit(ip, c, j) # "0"
                Word(ip, c, j) ==
                    IF Digit(ip, c, j) = "0" THEN << >>
                    ELSE (IF j > 1 /\ 4 * (c - 1) + j - 1 > 16 - Len(ip)
                             /\ Digit(ip, c, j - 1) = "0"
                          THEN <<"ling">> ELSE << >>)
                             \o CH_NUMS[DigitVal(Digit(ip, c, j)) + 1] \o CH_UNITS[5 - j]
                Piece(ip, c) ==
                    IF NonZero(ip, c)
                    THEN Word(ip, c, 1) \o Word(ip, c, 2) \o Word(ip, c, 3) \o Word(ip, c, 4)
                             \o CH_GROUPS[5 - c]
                    ELSE << >>
                Bridge(ip, b, c) == IF b[c] /\ NonZero(ip, c) THEN <<"ling">> ELSE << >>
                Words(ip, b) ==
                    CollapseLing(Bridge(ip, b, 1) \o Piece(ip, 1) \o Bridge(ip, b, 2)
                                    \o Piece(ip, 2) \o Bridge(ip, b, 3) \o Piece(ip, 3)
                                    \o Bridge(ip, b, 4) \o Piece(ip, 4))
                BeforeYuan(t) == SubSeq(t, 1, (CHOOSE k \in 1..Len(t) : t[k] = "yuan") - 1)
            IN  /\ objects[i].logicType = CURRENCY_CHI
                /\ ~num.nan /\ ~num.inf /\ ~num.neg
                /\ Len(num.ip) <= 16 /\ num.ip # <<"0">>
                => /\ \E k \in 1..Len(text) : text[k] = "yuan"
                   /\ \E b \in [1..4 -> BOOLEAN] : BeforeYuan(text) = Words(num.ip, b)

\* 100500 is settled: a chunk with a trailing zero, then a chunk with a leading
\* zero and trailing zeros
C26_Witness ==
    /\ Ready
    /\ \E i \in 1..Len(objects) :
          /\ objects[i].logicType = CURRENCY_CHI
          /\ objects[i].rawValue = NatToDigits(100500)
          /\ objects[i].text = <<"n1", "shi", "wan", "ling", "n5", "bai", "yuan", "zheng">>

(***************************************************************************)
(* Editing one stored field: the Sidebar's property inputs, the canvas     *)
(* transformer, delete and update by id.                                   *)
(***************************************************************************)
Max(a, b) == IF a > b THEN a ELSE b

\* parseInt of the text of a number input: white space, an optional sign,
\* then the longest prefix of digits; NaN when there is none
parseInt(str) ==
    LET Negative(u) == u # << >> /\ Head(u) = "-"
        Unsigned(u) == IF u # << >> /\ Head(u) \in {"-", "+"} THEN Tail(u) ELSE u
        Magnitude(u) == DigitsToNat(SubSeq(u, 1, DigitPrefixLen(u)))
        Number(u) == IF DigitPrefixLen(Unsigned(u)) = 0 THEN NaN
                     ELSE IF Negative(u) THEN 0 - Magnitude(Unsigned(u))
                     ELSE Magnitude(Unsigned(u))
    IN  Number(SkipSpaces(str))

\* what is typed into the Sidebar's "Width (px)" input; the texts with no
\* digits (parseInt gives NaN) are left out
WidthInputs == {<<"1", "2", "0">>, <<"0">>, <<"-", "5">>}

\* node.width() * scaleX at the end of a transform with a side anchor
NodeWidths == {1, 120}

\* lines 676-680 and 692-695: onUpdateObject and onChangeObject
onUpdateObject(updated) ==
    /\ UserReady
    /\ updateObjects(replaceById(objects, updated), historyIndex)
    /\ pending' = Aged(pending)
    /\ UNCHANGED <<selectedId, printValues, route, load, lastDeps, today, crashed, storage>>

\* Sidebar lines 43-47 with the width input, lines 286-292
handlePropChange(value) ==
    \E i \in 1..Len(objects) :
        /\ objects[i].id = selectedId
        /\ onUpdateObject([objects[i] EXCEPT !.width = value])

\* CanvasArea lines 237-256: onTransformEnd with a side anchor
transformEnd(i, nodeWidth) ==
    onUpdateObject([objects[i] EXCEPT !.width = Max(5, nodeWidth)])

\* a field whose id no field of the collection or of the history carries
AbsentField == [StoredText EXCEPT !.id = generateId]

NextEdit ==
    \/ Room /\ CanAdd /\ handleAddText
    \/ \E i \in 1..(IF crashed THEN 0 ELSE Len(objects)) : onSelect(objects[i].id)
    \/ Room /\ UserReady /\ \E v \in WidthInputs : handlePropChange(parseInt(v))
    \/ Room /\ UserReady /\ \E i \in 1..Len(objects) : \E w \in NodeWidths :
                                transformEnd(i, w)
    \/ Room /\ deleteSelected
    \/ Room /\ handleDeleteObject(generateId)
    \/ Room /\ onUpdateObject(AbsentField)
    \/ handleUndo
    \/ handleRedo
    \/ resolutionEffect

SpecEdit == InitCap /\ [][NextEdit]_vars

\* C23: a delete or an update of a field id that is not in the collection
\* leaves the collection, the snapshots, the history index and the selection
\* as they were.
C23_AbsentIdIsNoOp ==
    [][(handleDeleteObject(generateId) \/ onUpdateObject(AbsentField))
          => UNCHANGED <<objects, history, historyIndex, selectedId>>]_vars

\* C25: every field of the collection has a width greater than 0.
C25_WidthsArePositive ==
    ~crashed => \A i \in 1..Len(objects) : objects[i].width > 0

\* C27: whenever an edit, an undo or a redo can be issued, the history holds at
\* least one snapshot and the history index is one of its positions.
C27_HistoryIndexIsValid ==
    UserReady => /\ Len(history) >= 1
                 /\ 0 <= historyIndex
                 /\ historyIndex < Len(history)

\* C28: when the decode of a chosen image completes, the collection becomes the
\* collection of that moment with the new image appended.
C28_ImageAppendsToLiveCollection ==
    [][pending # << >> /\ pending' = << >>
          => /\ Len(objects') = Len(objects) + 1
             /\ SubSeq(objects', 1, Len(objects)) = objects
             /\ objects'[Len(objects')].type = "image"]_pending

(***************************************************************************)
(* Saving: handleSave and storageService's saveTemplate for a signed-in    *)
(* user (not the guest); the cloud may reject an upsert and localStorage   *)
(* may throw on a write.                                                   *)
(***************************************************************************)
\* generateId() of line 566: the 9-character id a new template is saved under
LocalId == "k3x9q2m1z"

\* the ids the cloud gives to the rows that are inserted without one
DbIds == <<"uuid-1", "uuid-2", "uuid-3", "uuid-4">>

\* storageService line 204: template.id.length > 20, true of the cloud's ids only
LongId(id) == \E k \in 1..Len(DbIds) : DbIds[k] = id

\* lines 201-211: the id of the row that the upsert returns
upsertId(rows, template) ==
    IF LongId(template.id) THEN template.id ELSE DbIds[Len(rows) + 1]

\* lines 201-211: upsert with onConflict 'id'; no id is sent for a short one
upsert(rows, template) ==
    LET row == [id |-> upsertId(rows, template), objects |-> template.objects]
    IN  IF \E k \in 1..Len(rows) : rows[k].id = row.id
        THEN [k \in 1..Len(rows) |-> IF rows[k].id = row.id THEN row ELSE rows[k]]
        ELSE Append(rows, row)

\* lines 221-233: saveToLocalStorage when setItem does not throw
saveToLocalStorage(templates, template) ==
    LET toSave == [id |-> template.id, objects |-> template.objects]
    IN  IF \E k \in 1..Len(templates) : templates[k].id = template.id
        THEN [k \in 1..Len(templates) |->
                 IF templates[k].id = template.id THEN toSave ELSE templates[k]]
        ELSE Append(templates, toSave)

\* lines 331-364: localStorage first, then the cloud; << >> stands for null
getTemplateById(id) ==
    LET WithId(templates) == SelectSeq(templates, LAMBDA t : t.id = id)
    IN  IF WithId(lsTemplates) # << >> THEN <<WithId(lsTemplates)[1]>>
        ELSE IF WithId(dbTemplates) # << >> THEN <<WithId(dbTemplates)[1]>>
        ELSE << >>

\* part_002 lines 563-575: the click on Save, up to the await
handleSave ==
    /\ UserReady
    /\ saving = << >>
    /\ saving' = <<[id |-> IF route = "new" THEN LocalId ELSE route,
                    objects |-> objects, new |-> route = "new"]>>
    /\ pending' = Aged(pending)
    /\ UNCHANGED <<objects, history, historyIndex, selectedId, printValues, route, load,
                   lastDeps, today, crashed, run, lsTemplates, dbTemplates, saveResult,
                   lsHistory, dbHistory, printHistory>>

\* storageService lines 179-234 and part_002 lines 576-581: saveTemplate settles
\* and handleSave goes on; a new template's page moves to /editor/newId, which
\* starts the load effect of lines 333-351
saveTemplate(cloudOk, localOk) ==
    /\ Ready
    /\ saving # << >>
    /\ LET template == saving[1]
           newId == IF cloudOk THEN upsertId(dbTemplates, template) ELSE template.id
       IN  /\ dbTemplates' = IF cloudOk THEN upsert(dbTemplates, template) ELSE dbTemplates
           /\ lsTemplates' = IF ~cloudOk /\ localOk
                              THEN saveToLocalStorage(lsTemplates, template)
                              ELSE lsTemplates
           /\ saveResult' = [returned |-> newId,
                             cloud |-> IF cloudOk THEN "ok" ELSE "failed",
                             local |-> IF cloudOk THEN "none"
                                       ELSE IF localOk THEN "ok" ELSE "failed"]
           /\ IF template.new
              THEN route' = newId /\ load' = "pending"
              ELSE UNCHANGED <<route, load>>
    /\ saving' = << >>
    /\ UNCHANGED <<objects, history, historyIndex, selectedId, printValues, pending,
                   lastDeps, today, crashed, run, lsHistory, dbHistory, printHistory>>

NextSave ==
    \/ Room /\ CanAdd /\ handleAddText
    \/ Room /\ UserReady /\ \E i \in 1..Len(objects) : \E p \in Positions : dragEnd(i, p)
    \/ handleUndo
    \/ handleRedo
    \/ Len(dbTemplates) < MaxRows /\ handleSave
    \/ \E cloudOk, localOk \in BOOLEAN : saveTemplate(cloudOk, localOk)
    \/ \E k \in 1..Len(getTemplateById(route)) : loadComplete(getTemplateById(route)[k].objects)
    \/ getTemplateById(route) = << >> /\ loadNotFound
    \/ resolutionEffect

\* the page of a new template
InitSave == InitCommon /\ InitNew

SpecSave == InitSave /\ [][NextSave]_vars

\* C24: when the cloud rejects the template, the save that ends writes to no
\* other store, hands its caller a value that is no template id, and leaves the
\* collection and the history as they were.
C24_SaveFailureIsReported ==
    [][saving # << >> /\ saving' = << >> /\ saveResult'.cloud = "failed"
          => /\ saveResult'.local = "none"
             /\ saveResult'.returned # LocalId /\ ~LongId(saveResult'.returned)
             /\ UNCHANGED <<objects, history, historyIndex>>]_saving

\* C29: neither the start nor the end of a save, nor the load that follows the
\* save of a new template, changes the collection, the snapshots or the index.
C29_SaveKeepsCollectionAndHistory ==
    [][saving' # saving \/ load' # load
          => UNCHANGED <<objects, history, historyIndex>>]_<<saving, load>>

(***************************************************************************)
(* Print records: PrintModal's submit with storageService's savePrintRecord *)
(* and getPrintHistory, for a signed-in user whose cloud store answers.    *)
(* The n-th submission is made at time n, by the browser's clock and by    *)
(* the cloud's.                                                            *)
(***************************************************************************)
\* history.sort((a, b) => b.created_at - a.created_at): latest first, stable
RECURSIVE insertByDate(_, _)
insertByDate(sorted, r) ==
    IF sorted = << >> THEN <<r>>
    ELSE IF sorted[Len(sorted)].created_at >= r.created_at THEN Append(sorted, r)
    ELSE Append(insertByDate(SubSeq(sorted, 1, Len(sorted) - 1), r), sorted[Len(sorted)])

RECURSIVE sortByDate(_)
sortByDate(records) ==
    IF records = << >> THEN << >>
    ELSE insertByDate(sortByDate(SubSeq(records, 1, Len(records) - 1)),
                      records[Len(records)])

\* storageService lines 627-645: the record, with its Math.random id, is pushed
\* to the local list, which drops its oldest record beyond 50
savePrintRecordLocal(stored, templateId, data, now) ==
    LET record == [id |-> <<"random", now>>, template_id |-> templateId,
                   data |-> data, created_at |-> now]
        allHistory == Append(stored, record)
    IN  IF Len(allHistory) > PrintLocalCap THEN Tail(allHistory) ELSE allHistory

\* lines 648-656: the insert sends no id and no created_at; the cloud sets both
savePrintRecordCloud(rows, templateId, data, now) ==
    Append(rows, [id |-> <<"row", Len(rows) + 1>>, template_id |-> templateId,
                  data |-> data, created_at |-> now])

\* lines 583-622
getPrintHistory(templateId, rows, stored) ==
    LET OfTemplate(records) == SelectSeq(records, LAMBDA h : h.template_id = templateId)
        Limit(records) == SubSeq(records, 1, Min(PrintCloudLimit, Len(records)))
        Merged(cloud, local) ==
            cloud \o SelectSeq(local, LAMBDA h :
                                 \A k \in 1..Len(cloud) : cloud[k].id # h.id)
    IN  sortByDate(Merged(Limit(sortByDate(OfTemplate(rows))),
                          sortByDate(OfTemplate(stored))))

\* PrintModal lines 82-87 with onPrint, part_002 lines 707-712
handleSubmit ==
    /\ UserReady
    /\ LET now == Len(dbHistory) + 1
       IN  /\ lsHistory' = savePrintRecordLocal(lsHistory, route, values, now)
           /\ dbHistory' = savePrintRecordCloud(dbHistory, route, values, now)
    /\ printHistory' = getPrintHistory(route, dbHistory', lsHistory')
    /\ printValues' = values
    /\ UNCHANGED <<objects, history, historyIndex, selectedId, route, load, pending,
                   lastDeps, today, crashed, run, lsTemplates, dbTemplates, saving,
                   saveResult>>

NextPrint ==
    \/ \E key \in {Key, OtherKey} : \E val \in BoundValues : handleChange(key, val)
    \/ Len(dbHistory) < MaxPrints /\ handleSubmit
    \/ resolutionEffect

SpecPrint == InitCap /\ [][NextPrint]_vars

\* C30: every print submission made so far stands exactly once in the list
\* that the dialog shows after a submit.
C30_SubmissionListedOnce ==
    \A n \in 1..Len(dbHistory) :
        Cardinality({k \in 1..Len(printHistory) : printHistory[k].created_at = n}) = 1

====
